---- MODULE Spec2Model ----
(***************************************************************************)
(* A model of lib/timeseries.py: Dataset, Fragment_Group and Fragment over *)
(* a per-month SQLite store.  The modules db, hash_ and time_ that the     *)
(* file imports are modelled from their documented behaviour (doctests and *)
(* the specification); everything else follows the source line by line.    *)
(***************************************************************************)
EXTENDS Integers, Sequences, FiniteSets, TLC

VARIABLES disk,     \* tag -> the committed content of the store file <root>/<tag>.db
          groups,   \* handle -> a Fragment_Group object (or NoGroup)
          frags,    \* slot -> a Fragment object held by the caller (or NoFrag)
          last,     \* the last call made and how it ended
          routed    \* shard indexes computed so far by Dataset.shard

vars == <<disk, groups, frags, last, routed>>

----------------------------------------------------------------------------
(* Program constants *)

SCHEMA_VERSION == 1

FRAGMENT_TOTAL_ZMAX == 2

TYPE_DEFAULT == "f"

HASH == "fnv1a_32"

\* dtype.char of the element types the model uses: float32 and float64
DTypes == {"f", "d"}

Fragment_Source == {"NEW", "UNCOMPRESSED", "COMPRESSED"}

----------------------------------------------------------------------------
(* Bounds of the model *)

\* hashmod of the Dataset under which the groups are opened
DatasetHashmod == 2

\* number of Fragment_Group objects the caller may hold
MaxGroups == 2

\* number of Fragment objects the caller may hold
MaxFrags == 2

\* rows a single store file may hold, committed or pending
MaxRows == 2

\* largest hashmod the shard routing is checked for
MaxHashmod == 4

Handles == 1..MaxGroups

Slots == 1..MaxFrags

----------------------------------------------------------------------------
(* Inputs *)

Namespaces == {"aboth", "full"}

Names == {"abov11", "nonexistent"}

\* the identities the data operations are called with; the first two fall in
\* the same shard for hashmod 2, 3 and 4, the third in another one
Idents == {<<"aboth", "abov11">>, <<"full", "nonexistent">>, <<"aboth", "nonexistent">>}

\* two identities of one shard table
SameShardIdents == {<<"aboth", "abov11">>, <<"full", "nonexistent">>}

\* the element indexes the caller assigns to (the doctest's a.data[0], a.data[2])
Idx == {0, 2}

\* the assignments a.data[i] = v of the doctest
SetInputs == {<<0, 11>>, <<2, 22>>}

\* assignments whose sum no float32 holds: 16777216 = 2^24, and 2^24 + 1 lies
\* between two float32 values
RoundingInputs == {<<0, 16777216>>, <<2, 1>>}

\* UTF-8 bytes of the strings used as namespace and name
Utf8(s) ==
  CASE s = "aboth"       -> <<97, 98, 111, 116, 104>>
    [] s = "full"        -> <<102, 117, 108, 108>>
    [] s = "abov11"      -> <<97, 98, 111, 118, 49, 49>>
    [] s = "nonexistent" -> <<110, 111, 110, 101, 120, 105, 115, 116, 101, 110, 116>>

----------------------------------------------------------------------------
(* hash_.fnv1a_32 on 32-bit unsigned words kept as <<high 16 bits, low 16 bits>> *)

\* bit k of a XOR bit k of b, in place
XorBit(a, b, k) == ((((a \div k) % 2) + ((b \div k) % 2)) % 2) * k

\* a XOR b for two bytes
Xor8(a, b) ==
  XorBit(a, b, 1) + XorBit(a, b, 2) + XorBit(a, b, 4) + XorBit(a, b, 8)
  + XorBit(a, b, 16) + XorBit(a, b, 32) + XorBit(a, b, 64) + XorBit(a, b, 128)

FnvOffset == <<33052, 40389>>   \* 2166136261 = 0x811C9DC5

\* w * 16777619 mod 2^32, with 16777619 = 2^24 + 403
FnvMul(w) ==
  LET t == w[2] * 403
  IN  << ((t \div 65536) + (w[1] * 403) + ((w[2] % 256) * 256)) % 65536, t % 65536 >>

FnvStep(w, byte) ==
  FnvMul(<< w[1], (w[2] \div 256) * 256 + Xor8(w[2] % 256, byte) >>)

\* the hash after the first i bytes
RECURSIVE FnvFold(_, _)
FnvFold(bytes, i) ==
  IF i = 0 THEN FnvOffset ELSE FnvStep(FnvFold(bytes, i - 1), bytes[i])

fnv1a_32(bytes) == FnvFold(bytes, Len(bytes))

\* (hi * 2^16 + lo) % m for a word and a modulus m > 0
WordMod(w, m) == (((w[1] % m) * (65536 % m)) + (w[2] % m)) % m

\* shard reducing the hash modulo hashmod + 1
shardAs(hashmod, namespace, name) ==
  WordMod(fnv1a_32(Utf8(namespace) \o <<47>> \o Utf8(name)), hashmod + 1)

\* Dataset.shard: hashf(namespace + '/' + name) % self.hashmod
shard(hashmod, namespace, name) ==
  WordMod(fnv1a_32(Utf8(namespace) \o <<47>> \o Utf8(name)), hashmod)

\* shard for every hashmod and identity of the model, computed once
ShardTable ==
  {<<n, id, shard(n, id[1], id[2])>> : n \in 1..MaxHashmod, id \in Namespaces \X Names}

Route(hashmod, namespace, name) ==
  (CHOOSE t \in ShardTable : t[1] = hashmod /\ t[2] = <<namespace, name>>)[3]

----------------------------------------------------------------------------
(* time_: months, their ISO-8601 tag and their number of hours *)

january == [year |-> 2015, month |-> 1, day |-> 1, hour |-> 0, minute |-> 0,
            second |-> 0, microsecond |-> 0, tz |-> "UTC"]

february == [january EXCEPT !.month = 2]

january_nonutc == [january EXCEPT !.tz = "GMT"]

mid_january1 == [january EXCEPT !.second = 1]

mid_january2 == [january EXCEPT !.day = 2]

ValidMonths == {january, february}

BogusMonths == {january_nonutc, mid_january1, mid_january2,
                [january EXCEPT !.day = 2, !.tz = "GMT"],
                [january EXCEPT !.hour = 1], [february EXCEPT !.microsecond = 1]}

Pad2(n) == IF n < 10 THEN "0" \o ToString(n) ELSE ToString(n)

\* time_.iso8601_date: 'YYYY-MM-DD'
iso8601_date(m) == ToString(m.year) \o "-" \o Pad2(m.month) \o "-" \o Pad2(m.day)

DaysInMonth(y, m) ==
  IF m = 2 THEN (IF (y % 4 = 0 /\ y % 100 # 0) \/ y % 400 = 0 THEN 29 ELSE 28)
  ELSE IF m \in {4, 6, 9, 11} THEN 30 ELSE 31

\* time_.hours_in_month
hours_in_month(m) == 24 * DaysInMonth(m.year, m.month)

\* time_ refuses a datetime that is not in UTC ("time zone must be UTC")
TzIsUtc(m) == m.tz = "UTC"

\* the store files the calls of the model can name
Tags == {iso8601_date(m) : m \in ValidMonths \cup BogusMonths}

----------------------------------------------------------------------------
(* numpy arrays and their element types *)

RECURSIVE Ulp(_)
Ulp(x) == IF x < 16777216 THEN 1 ELSE 2 * Ulp(x \div 2)

\* the float32 nearest to a non-negative integer x (ties to even)
F32(x) ==
  LET u == Ulp(x)
      q == x \div u
      r == x % u
  IN  IF 2 * r < u THEN q * u
      ELSE IF 2 * r > u THEN (q + 1) * u
      ELSE IF q % 2 = 0 THEN q * u ELSE (q + 1) * u

\* a value as an element of an array of the dtype (float64 holds these integers exactly)
Cast(dtype, x) == IF dtype = "f" THEN F32(x) ELSE x

\* np.zeros(length, dtype): the elements at Idx are kept, every other one is 0
Zeros(length) == [len |-> length, at |-> [i \in Idx |-> 0]]

RECURSIVE SumOver(_, _, _, _)
SumOver(dtype, at, idx, acc) ==
  IF idx = {} THEN acc
  ELSE LET i == CHOOSE j \in idx : \A k \in idx : j <= k
       IN  SumOver(dtype, at, idx \ {i}, Cast(dtype, acc + at[i]))

\* data.sum(): accumulated in the array's own element type
NpSum(dtype, data) == SumOver(dtype, data.at, Idx, 0)

\* the sum of the elements as a real number
ExactSum(data) == SumOver("d", data.at, Idx, 0)

----------------------------------------------------------------------------
(* Fragment_Group.__init__ *)

MetaKeys == {"fragment_total_zmax", "hash", "hashmod", "length", "schema_version"}

Metadata(hashmod, length) ==
  [fragment_total_zmax |-> FRAGMENT_TOTAL_ZMAX,
   hash |-> HASH,
   hashmod |-> hashmod,
   length |-> length,
   schema_version |-> SCHEMA_VERSION]

\* str(v) of a metadata value
PyStr(k, v) == IF k = "hash" THEN v ELSE ToString(v)

\* a value bound to the TEXT column metadata.value is stored as its text
TextAffinity(k, v) == IF k = "hash" THEN v ELSE ToString(v)

NoTxn == [active |-> FALSE, dirty |-> FALSE, tables |-> <<>>]

NoGroup == [db |-> "none"]

NewGroup(hashmod, tag, length) ==
  [db |-> "unset", writeable |-> "unset", tag |-> tag, length |-> length,
   hashmod |-> hashmod, metadata |-> Metadata(hashmod, length), txn |-> NoTxn]

NoFrag == [source |-> "none"]

NoFile == [file |-> FALSE, hasMeta |-> FALSE, meta |-> {}, tables |-> <<>>]

NoId == <<"", "">>

\* a call: the method, the group and fragment variable it was made on, the identity
\* and other argument passed, and how it ended ("ok" or the exception raised)
Call(op, h, id, f, arg, res) ==
  [op |-> op, h |-> h, id |-> id, f |-> f, arg |-> arg, res |-> res]

----------------------------------------------------------------------------
(* Fragment_Group: connect, initialize_db, validate_db, open *)

PyBool(b) == IF b THEN "True" ELSE "False"

\* the fragments of group h whose uncommitted rows are discarded with its connection
RolledBack(frs, h) ==
  [f \in Slots |->
     IF frs[f].source # "none" /\ frs[f].group = h /\ frs[f].saved = "pending"
     THEN [frs[f] EXCEPT !.saved = "no"] ELSE frs[f]]

\* a connect that creates the file for a read-only connection too
ConnectAs(g, bucket, writeable) ==
  [g |-> [g EXCEPT !.writeable = PyBool(writeable), !.db = "open", !.txn = NoTxn],
   bucket |-> [bucket EXCEPT !.file = TRUE],
   res |-> "ok"]

\* connect: db.SQLite opens the file, creating it only when writeable
Connect(g, bucket, writeable) ==
  IF ~bucket.file /\ ~writeable
  THEN [g |-> [g EXCEPT !.writeable = PyBool(writeable)], bucket |-> bucket,
        res |-> "StoreError"]
  ELSE [g |-> [g EXCEPT !.writeable = PyBool(writeable), !.db = "open", !.txn = NoTxn],
        bucket |-> [bucket EXCEPT !.file = TRUE],
        res |-> "ok"]

\* INSERT INTO metadata VALUES (?, ?) for the items of a metadata dict
MetaRows(md) == {<<k, TextAffinity(k, md[k])>> : k \in MetaKeys}

MetadataRows(g) == MetaRows(g.metadata)

EmptyTables(hashmod) == [i \in 1..hashmod |-> <<>>]

\* initialize_db without its test for an existing metadata table: CREATE TABLE
\* metadata fails on a file that has one
initialize_dbAs(g, bucket) ==
  IF g.writeable # "True" THEN [bucket |-> bucket, res |-> "ok"]
  ELSE IF bucket.hasMeta THEN [bucket |-> bucket, res |-> "StoreError"]
  ELSE [bucket |-> [bucket EXCEPT !.hasMeta = TRUE,
                                  !.meta = MetadataRows(g),
                                  !.tables = EmptyTables(g.hashmod)],
        res |-> "ok"]

\* initialize_db replacing the structure of a file that has one
initialize_dbOver(g, bucket) ==
  IF g.writeable # "True" THEN [bucket |-> bucket, res |-> "ok"]
  ELSE [bucket |-> [bucket EXCEPT !.hasMeta = TRUE,
                                  !.meta = MetadataRows(g),
                                  !.tables = EmptyTables(g.hashmod)],
        res |-> "ok"]

\* initialize_db: the bucket it leaves, and "ok" or the error of its statements
initialize_db(g, bucket) ==
  IF g.writeable # "True" THEN [bucket |-> bucket, res |-> "ok"]
  ELSE IF bucket.hasMeta THEN [bucket |-> bucket, res |-> "ok"]
  ELSE [bucket |-> [bucket EXCEPT !.hasMeta = TRUE,
                                  !.meta = MetadataRows(g),
                                  !.tables = EmptyTables(g.hashmod)],
        res |-> "ok"]

StoredKeys(bucket) == {kv[1] : kv \in bucket.meta}

StoredValue(bucket, k) == (CHOOSE kv \in bucket.meta : kv[1] = k)[2]

\* the expected keys at which the loop of validate_db stops, with the error raised there
Offending(g, bucket) ==
  {[key |-> k, res |-> "KeyError"] : k \in MetaKeys \ StoredKeys(bucket)}
  \cup {[key |-> k, res |-> "ValueError: Metadata mismatch"] :
          k \in {j \in MetaKeys \cap StoredKeys(bucket) :
                   PyStr(j, g.metadata[j]) # StoredValue(bucket, j)}}

\* validate_db: the loop raises at the first offending key of self.metadata.items(),
\* whose iteration order the language version decides; then the key sets are compared
validate_db(g, bucket) ==
  IF ~bucket.hasMeta THEN {"StoreError"}
  ELSE IF Offending(g, bucket) # {} THEN {o.res : o \in Offending(g, bucket)}
  ELSE IF StoredKeys(bucket) # MetaKeys THEN {"ValueError: Metadata mismatch"}
  ELSE {"ok"}

\* open(writeable): connect, initialize_db, validate_db
OpenOutcomes(g, bucket, writeable) ==
  LET c == Connect(g, bucket, writeable)
  IN  IF c.res # "ok" THEN {c}
      ELSE LET i == initialize_db(c.g, c.bucket)
           IN  IF i.res # "ok" THEN {[g |-> c.g, bucket |-> i.bucket, res |-> i.res]}
               ELSE {[g |-> c.g, bucket |-> i.bucket, res |-> r] :
                       r \in validate_db(c.g, i.bucket)}

----------------------------------------------------------------------------
(* Dataset.open_month *)

\* open_month without its test of the day
DayIsFirstAs(month) == TRUE

DayIsFirst(month) == month.day = 1

SubDayIsZero(month) ==
  ~(month.hour # 0 \/ month.minute # 0 \/ month.second # 0 \/ month.microsecond # 0)

\* the checks made before the group is constructed, in the order the code makes them
MonthError(month) ==
  IF ~DayIsFirst(month)
  THEN "ValueError: month must have day=1, not " \o ToString(month.day)
  ELSE IF ~SubDayIsZero(month)
       THEN "ValueError: month must have all sub-day attributes equal to zero"
  ELSE IF ~TzIsUtc(month) THEN "ValueError: time zone must be UTC"
  ELSE "ok"

OpenMonth(h, hashmod, month, writeable) ==
  /\ groups[h] = NoGroup
  /\ IF MonthError(month) # "ok"
     THEN /\ last' = Call("open_month", h, NoId, 0,
                         [month |-> month, writeable |-> writeable], MonthError(month))
          /\ UNCHANGED <<disk, groups, frags, routed>>
     ELSE LET tag == iso8601_date(month)
              g0  == NewGroup(hashmod, tag, hours_in_month(month))
          IN  \E o \in OpenOutcomes(g0, disk[tag], writeable) :
                /\ disk' = [disk EXCEPT ![tag] = o.bucket]
                /\ groups' = IF o.res = "ok" THEN [groups EXCEPT ![h] = o.g] ELSE groups
                /\ last' = Call("open_month", h, NoId, 0,
                               [month |-> month, writeable |-> writeable], o.res)
                /\ UNCHANGED <<frags, routed>>

\* Fragment_Group(dataset, filename, tag, length): the constructor alone
Construct(h, hashmod, month) ==
  /\ groups[h] = NoGroup
  /\ groups' = [groups EXCEPT
                  ![h] = NewGroup(hashmod, iso8601_date(month), hours_in_month(month))]
  /\ last' = Call("construct", h, NoId, 0, 0, "ok")
  /\ UNCHANGED <<disk, frags, routed>>

\* group.open(writeable) on an object the caller holds; a connection the object
\* held before is dropped, and with it its uncommitted transaction
Open(h, writeable) ==
  /\ groups[h] # NoGroup
  /\ \E o \in OpenOutcomes(groups[h], disk[groups[h].tag], writeable) :
       /\ disk' = [disk EXCEPT ![groups[h].tag] = o.bucket]
       /\ groups' = [groups EXCEPT ![h] = o.g]
       /\ frags' = IF o.g.db = "open" /\ groups[h].db = "open"
                   THEN RolledBack(frags, h) ELSE frags
       /\ last' = Call("open", h, NoId, 0, writeable, o.res)
       /\ UNCHANGED routed

\* close(): create_indexes() does nothing, the connection is closed, writeable = None
Close(h) ==
  /\ groups[h] # NoGroup
  /\ \/ /\ groups[h].db = "unset"
        /\ last' = Call("close", h, NoId, 0, 0, "AttributeError")
        /\ UNCHANGED <<disk, groups, frags, routed>>
     \/ /\ groups[h].db = "open"
        /\ groups' = [groups EXCEPT ![h].db = "closed", ![h].writeable = "None",
                                    ![h].txn = NoTxn]
        /\ frags' = RolledBack(frags, h)
        /\ last' = Call("close", h, NoId, 0, 0, "ok")
        /\ UNCHANGED <<disk, routed>>
     \/ /\ groups[h].db = "closed"
        /\ \E r \in {"ok", "StoreError"} : last' = Call("close", h, NoId, 0, 0, r)
        /\ UNCHANGED <<disk, groups, frags, routed>>

\* begin(): BEGIN on the connection
Begin(h) ==
  /\ groups[h] # NoGroup
  /\ IF groups[h].db = "unset"
     THEN /\ last' = Call("begin", h, NoId, 0, 0, "AttributeError")
          /\ UNCHANGED groups
     ELSE IF groups[h].db = "closed" \/ groups[h].txn.active
     THEN /\ last' = Call("begin", h, NoId, 0, 0, "StoreError")
          /\ UNCHANGED groups
     ELSE /\ groups' = [groups EXCEPT ![h].txn = [active |-> TRUE, dirty |-> FALSE,
                                                 tables |-> <<>>]]
          /\ last' = Call("begin", h, NoId, 0, 0, "ok")
  /\ UNCHANGED <<disk, frags, routed>>

Committed(frs, h) ==
  [f \in Slots |->
     IF frs[f].source # "none" /\ frs[f].group = h /\ frs[f].saved = "pending"
     THEN [frs[f] EXCEPT !.saved = "committed"] ELSE frs[f]]

\* commit(): COMMIT on the connection
Commit(h) ==
  /\ groups[h] # NoGroup
  /\ IF groups[h].db = "unset"
     THEN /\ last' = Call("commit", h, NoId, 0, 0, "AttributeError")
          /\ UNCHANGED <<disk, groups, frags>>
     ELSE IF groups[h].db = "closed" \/ ~groups[h].txn.active
     THEN /\ last' = Call("commit", h, NoId, 0, 0, "StoreError")
          /\ UNCHANGED <<disk, groups, frags>>
     ELSE /\ disk' = IF groups[h].txn.dirty
                     THEN [disk EXCEPT ![groups[h].tag].tables = groups[h].txn.tables]
                     ELSE disk
          /\ groups' = [groups EXCEPT ![h].txn = NoTxn]
          /\ frags' = Committed(frags, h)
          /\ last' = Call("commit", h, NoId, 0, 0, "ok")
  /\ UNCHANGED routed

----------------------------------------------------------------------------
(* Fragment and the rows of the shard tables *)

ItemSize(dtype) == IF dtype = "f" THEN 4 ELSE 8

\* the buffer of an array, as bound to the BLOB column
ToBuffer(data, dtype) ==
  [nbytes |-> data.len * ItemSize(dtype), dtype |-> dtype, at |-> data.at]

\* np.frombuffer(data) with the default dtype, whatever dtype the row names
FromBufferAs(buf, dtype) == [len |-> buf.nbytes \div ItemSize(TYPE_DEFAULT), at |-> buf.at]

\* np.frombuffer(data, dtype=dtype), for the dtype the buffer was written with
FromBuffer(buf, dtype) == [len |-> buf.nbytes \div ItemSize(dtype), at |-> buf.at]

\* Fragment.__init__; saved is not a field of the object: it records whether the
\* object's data is what its one save stored ("pending" until committed, "stale"
\* once the object is assigned to or saved again, or another save took the row)
Fragment(h, namespace, name, dtype, data, source) ==
  [group |-> h, namespace |-> namespace, name |-> name, dtype |-> dtype,
   data |-> data, source |-> source, total |-> 0, saved |-> "no"]

\* Fragment_Group.create
create(h, g, namespace, name, dtype) ==
  Fragment(h, namespace, name, dtype, Zeros(g.length), "NEW")

\* a router that sends every identity to the first shard table
GroupShardAs(g, namespace, name) == 0

\* self.dataset.shard(namespace, name), as fetch and Fragment.shard call it
GroupShard(g, namespace, name) == Route(g.hashmod, namespace, name)

\* a connection that reads the January file whatever the tag of its group
ViewAs(g) == IF g.txn.dirty THEN g.txn.tables ELSE disk[iso8601_date(january)].tables

\* the tables the connection of g reads: its own uncommitted ones, else the file's
View(g) == IF g.txn.dirty THEN g.txn.tables ELSE disk[g.tag].tables

RECURSIVE RowCountTo(_, _)
RowCountTo(tables, i) == IF i = 0 THEN 0 ELSE Len(tables[i]) + RowCountTo(tables, i - 1)

RowCount(tables) == RowCountTo(tables, Len(tables))

Matches(table, namespace, name) ==
  {i \in 1..Len(table) : table[i].namespace = namespace /\ table[i].name = name}

Min(S) == CHOOSE x \in S : \A y \in S : x <= y

\* Fragment_Group.fetch reading the tables tb: SELECT ... FROM data<shard> WHERE
\* namespace=? AND name=?, then db.get_one, which wants exactly one row
FetchFrom(h, g, tb, namespace, name) ==
  LET sh == GroupShard(g, namespace, name)
  IN  IF sh + 1 \notin DOMAIN tb THEN {[res |-> "StoreError", frag |-> NoFrag]}
      ELSE LET m == Matches(tb[sh + 1], namespace, name)
               Got(i) ==
                 LET row == tb[sh + 1][i]
                 IN  [res |-> "ok",
                      frag |-> [Fragment(h, namespace, name, row.dtype,
                                         FromBuffer(row.data, row.dtype), "UNCOMPRESSED")
                                EXCEPT !.total = row.total]]
           IN  IF m = {} THEN {[res |-> "Not_Enough_Rows_Error", frag |-> NoFrag]}
               ELSE IF Cardinality(m) = 1 THEN {Got(Min(m))}
               ELSE {Got(Min(m)), [res |-> "Too_Many_Rows_Error", frag |-> NoFrag]}

\* Fragment_Group.fetch on an open connection
FetchOutcomes(h, g, namespace, name) == FetchFrom(h, g, View(g), namespace, name)

\* fetch on any group object
FetchAny(h, g, namespace, name) ==
  IF g.db = "unset" THEN {[res |-> "AttributeError", frag |-> NoFrag]}
  ELSE IF g.db = "closed" THEN {[res |-> "StoreError", frag |-> NoFrag]}
  ELSE FetchOutcomes(h, g, namespace, name)

\* fetch_or_create without its except clause
FetchOrCreateAnyAs(h, g, namespace, name, dtype) == FetchAny(h, g, namespace, name)

\* fetch_or_create giving the fetched fragment the dtype that was passed
FetchOrCreateAnyDtype(h, g, namespace, name, dtype) ==
  {IF o.res = "Not_Enough_Rows_Error"
   THEN [res |-> "ok", frag |-> create(h, g, namespace, name, dtype)]
   ELSE IF o.res = "ok" THEN [o EXCEPT !.frag.dtype = dtype]
   ELSE o : o \in FetchAny(h, g, namespace, name)}

\* fetch_or_create: fetch, and create on db.Not_Enough_Rows_Error only
FetchOrCreateAny(h, g, namespace, name, dtype) ==
  {IF o.res = "Not_Enough_Rows_Error"
   THEN [res |-> "ok", frag |-> create(h, g, namespace, name, dtype)]
   ELSE o : o \in FetchAny(h, g, namespace, name)}

\* create refusing a group whose connection is not open
CreateAs(h, id, dtype, f) ==
  /\ groups[h] # NoGroup
  /\ IF groups[h].db = "open"
     THEN /\ frags' = [frags EXCEPT ![f] = create(h, groups[h], id[1], id[2], dtype)]
          /\ last' = Call("create", h, id, f, dtype, "ok")
     ELSE /\ frags' = frags
          /\ last' = Call("create", h, id, f, dtype, "StoreError")
  /\ UNCHANGED <<disk, groups, routed>>

\* create storing a zero row for the identity when the connection is open
CreateStored(h, id, dtype, f) ==
  /\ groups[h] # NoGroup
  /\ frags' = [frags EXCEPT ![f] = create(h, groups[h], id[1], id[2], dtype)]
  /\ last' = Call("create", h, id, f, dtype, "ok")
  /\ disk' = IF /\ groups[h].db = "open"
                /\ GroupShard(groups[h], id[1], id[2]) + 1
                     \in DOMAIN disk[groups[h].tag].tables
             THEN [disk EXCEPT ![groups[h].tag].tables[GroupShard(groups[h], id[1], id[2]) + 1]
                                 = Append(@, [namespace |-> id[1], name |-> id[2],
                                              dtype |-> dtype, total |-> 0,
                                              data |-> [nbytes |-> 0, dtype |-> dtype,
                                                        at |-> [i \in Idx |-> 0]]])]
             ELSE disk
  /\ UNCHANGED <<groups, routed>>

\* Fragment_Group.create as a call
Create(h, id, dtype, f) ==
  /\ groups[h] # NoGroup
  /\ frags' = [frags EXCEPT ![f] = create(h, groups[h], id[1], id[2], dtype)]
  /\ last' = Call("create", h, id, f, dtype, "ok")
  /\ UNCHANGED <<disk, groups, routed>>

Fetch(h, id, f) ==
  /\ groups[h] # NoGroup
  /\ \E o \in FetchAny(h, groups[h], id[1], id[2]) :
       /\ frags' = IF o.res = "ok" THEN [frags EXCEPT ![f] = o.frag] ELSE frags
       /\ last' = Call("fetch", h, id, f, 0, o.res)
  /\ UNCHANGED <<disk, groups, routed>>

FetchOrCreate(h, id, dtype, f) ==
  /\ groups[h] # NoGroup
  /\ \E o \in FetchOrCreateAny(h, groups[h], id[1], id[2], dtype) :
       /\ frags' = IF o.res = "ok" THEN [frags EXCEPT ![f] = o.frag] ELSE frags
       /\ last' = Call("fetch_or_create", h, id, f, dtype, o.res)
  /\ UNCHANGED <<disk, groups, routed>>

\* an assignment that keeps the total equal to the sum of the data
SetItemAs(f, iv) ==
  /\ frags[f] # NoFrag
  /\ iv[1] < frags[f].data.len
  /\ frags' = [frags EXCEPT ![f].data.at[iv[1]] = Cast(frags[f].dtype, iv[2]),
                            ![f].total = frags[f].total - frags[f].data.at[iv[1]]
                                           + Cast(frags[f].dtype, iv[2]),
                            ![f].saved = IF @ = "no" THEN "no" ELSE "stale"]
  /\ last' = Call("setitem", 0, NoId, f, iv, "ok")
  /\ UNCHANGED <<disk, groups, routed>>

\* a.data[i] = v
SetItem(f, iv) ==
  /\ frags[f] # NoFrag
  /\ iv[1] < frags[f].data.len
  /\ frags' = [frags EXCEPT ![f].data.at[iv[1]] = Cast(frags[f].dtype, iv[2]),
                            ![f].saved = IF @ = "no" THEN "no" ELSE "stale"]
  /\ last' = Call("setitem", 0, NoId, f, iv, "ok")
  /\ UNCHANGED <<disk, groups, routed>>

\* Fragment.total_update
total_update(fr) == [fr EXCEPT !.total = NpSum(fr.dtype, fr.data)]

Row(fr) ==
  [namespace |-> fr.namespace, name |-> fr.name, dtype |-> fr.dtype,
   total |-> fr.total, data |-> ToBuffer(fr.data, fr.dtype)]

\* INSERT INTO data<shard> (namespace, name, dtype, total, data) VALUES (...)
InsertRow(table, fr) == Append(table, Row(fr))

\* the UPDATE without its WHERE clause
UpdateRowsAs(table, fr) ==
  [i \in 1..Len(table) |->
     [table[i] EXCEPT !.dtype = fr.dtype, !.total = fr.total,
                      !.data = ToBuffer(fr.data, fr.dtype)]]

\* UPDATE data<shard> SET dtype=?, total=?, data=? WHERE namespace=? AND name=?
UpdateRows(table, fr) ==
  [i \in 1..Len(table) |->
     IF table[i].namespace = fr.namespace /\ table[i].name = fr.name
     THEN Row(fr) ELSE table[i]]

\* the statement save() issues, by the fragment's source
SaveTable(table, fr) ==
  IF fr.source = "NEW" THEN InsertRow(table, fr) ELSE UpdateRows(table, fr)

\* another connection to the same file holds uncommitted writes
Busy(h) ==
  \E k \in Handles \ {h} :
    /\ groups[k] # NoGroup
    /\ groups[k].tag = groups[h].tag
    /\ groups[k].db = "open"
    /\ groups[k].txn.dirty

\* why the store refuses the statement of save(), or "ok"
SaveError(h, g, sh) ==
  IF g.db = "unset" THEN "AttributeError"
  ELSE IF g.db = "closed" \/ g.writeable # "True" \/ Busy(h) THEN "StoreError"
  ELSE IF sh + 1 \notin DOMAIN View(g) THEN "StoreError"
  ELSE "ok"

\* fragments of the same identity in the same file no longer hold its stored data
Superseded(frs, f, fr, status) ==
  [k \in Slots |->
     IF k = f THEN [fr EXCEPT !.saved = IF @ = "no" THEN status ELSE "stale"]
     ELSE IF /\ frs[k].source # "none"
             /\ groups[frs[k].group].tag = groups[fr.group].tag
             /\ frs[k].namespace = fr.namespace /\ frs[k].name = fr.name
          THEN [frs[k] EXCEPT !.saved = IF @ = "no" THEN "no" ELSE "stale"]
          ELSE frs[k]]

\* a save whose statement wrote its row before the error was raised
SaveFailedAs(f, fr, err) ==
  LET g  == groups[fr.group]
      sh == GroupShard(g, fr.namespace, fr.name)
  IN  /\ frags' = [frags EXCEPT ![f] = fr]
      /\ last' = Call("save", fr.group, <<fr.namespace, fr.name>>, f, 0, err)
      /\ disk' = IF sh + 1 \in DOMAIN disk[g.tag].tables
                 THEN [disk EXCEPT ![g.tag].tables[sh + 1] = SaveTable(@, fr)]
                 ELSE disk
      /\ UNCHANGED groups

\* save() when its statement raises: total_update has run, nothing is written
SaveFailed(f, fr, err) ==
  /\ frags' = [frags EXCEPT ![f] = fr]
  /\ last' = Call("save", fr.group, <<fr.namespace, fr.name>>, f, 0, err)
  /\ UNCHANGED <<disk, groups>>

\* save writing its row to the file at once, inside a transaction too
SaveThrough(f) ==
  /\ frags[f] # NoFrag
  /\ LET fr  == total_update(frags[f])
         h   == fr.group
         g   == groups[h]
         sh  == GroupShard(g, fr.namespace, fr.name)
         err == SaveError(h, g, sh)
     IN  IF err # "ok"
         THEN SaveFailed(f, fr, err)
         ELSE LET tb == [View(g) EXCEPT ![sh + 1] = SaveTable(@, fr)]
              IN  /\ RowCount(tb) <= MaxRows
                  /\ disk' = [disk EXCEPT ![g.tag].tables = tb]
                  /\ groups' = IF g.txn.active
                                THEN [groups EXCEPT ![h].txn.dirty = TRUE,
                                                    ![h].txn.tables = tb]
                                ELSE groups
                  /\ frags' = Superseded(frags, f, fr, "committed")
                  /\ last' = Call("save", h, <<fr.namespace, fr.name>>, f, 0, "ok")
  /\ UNCHANGED routed

\* Fragment.save
Save(f) ==
  /\ frags[f] # NoFrag
  /\ LET fr  == total_update(frags[f])
         h   == fr.group
         g   == groups[h]
         sh  == GroupShard(g, fr.namespace, fr.name)
         err == SaveError(h, g, sh)
     IN  IF err # "ok"
         THEN SaveFailed(f, fr, err)
         ELSE LET tb == [View(g) EXCEPT ![sh + 1] = SaveTable(@, fr)]
              IN  /\ RowCount(tb) <= MaxRows
                  /\ IF g.txn.active
                     THEN /\ groups' = [groups EXCEPT ![h].txn.dirty = TRUE,
                                                      ![h].txn.tables = tb]
                          /\ frags' = Superseded(frags, f, fr, "pending")
                          /\ UNCHANGED disk
                     ELSE /\ disk' = [disk EXCEPT ![g.tag].tables = tb]
                          /\ frags' = Superseded(frags, f, fr, "committed")
                          /\ UNCHANGED groups
                  /\ last' = Call("save", h, <<fr.namespace, fr.name>>, f, 0, "ok")
  /\ UNCHANGED routed

\* fragment.shard / group.dataset.shard(namespace, name) called through a group
ShardCall(h, id) ==
  /\ groups[h] # NoGroup
  /\ routed' = routed \cup {[tag |-> groups[h].tag, hashmod |-> groups[h].hashmod,
                               id |-> id,
                               shard |-> GroupShard(groups[h], id[1], id[2])]}
  /\ last' = Call("shard", h, id, 0, 0, "ok")
  /\ UNCHANGED <<disk, groups, frags>>

----------------------------------------------------------------------------
(* The caller: any call on any object it holds *)

Init ==
  /\ disk = [t \in Tags |-> NoFile]
  /\ groups = [h \in Handles |-> NoGroup]
  /\ frags = [f \in Slots |-> NoFrag]
  /\ last = Call("init", 0, NoId, 0, 0, "ok")
  /\ routed = {}

\* opening and closing: groups H of a dataset with the given hashmod, months M, modes W
Lifecycle(H, hashmod, M, W) ==
  \/ \E h \in H, m \in M, w \in W : OpenMonth(h, hashmod, m, w)
  \/ \E h \in H, m \in M \cap ValidMonths : Construct(h, hashmod, m)
  \/ \E h \in H, w \in W : Open(h, w)
  \/ \E h \in H : Close(h)

\* the data calls: groups H, fragment variables F, identities I, dtypes D, assignments S
DataCalls(H, F, I, D, S) ==
  \/ \E h \in H : Begin(h)
  \/ \E h \in H : Commit(h)
  \/ \E h \in H, id \in I, d \in D, f \in F : Create(h, id, d, f)
  \/ \E h \in H, id \in I, f \in F : Fetch(h, id, f)
  \/ \E h \in H, id \in I, d \in D, f \in F : FetchOrCreate(h, id, d, f)
  \/ \E f \in F, iv \in S : SetItem(f, iv)
  \/ \E f \in F : Save(f)

\* one group of the January bucket and one fragment variable, float32 data
Next ==
  \/ Lifecycle({1}, DatasetHashmod, {january}, BOOLEAN)
  \/ DataCalls({1}, {1}, SameShardIdents, {TYPE_DEFAULT}, {<<0, 11>>})

Spec == Init /\ [][Next]_vars

----------------------------------------------------------------------------
(* Opening buckets that exist already *)

JanuaryTag == iso8601_date(january)

OwnMetadata == Metadata(DatasetHashmod, hours_in_month(january))

\* the metadata tables found in the January file: the dataset's own, ones written
\* under another value of one key, and ones of another key set
StoredMetas ==
  {MetaRows(OwnMetadata),
   MetaRows([OwnMetadata EXCEPT !.hashmod = DatasetHashmod + 1]),
   MetaRows([OwnMetadata EXCEPT !.schema_version = SCHEMA_VERSION + 1]),
   MetaRows([OwnMetadata EXCEPT !.hash = "fnv1_32"]),
   MetaRows([OwnMetadata EXCEPT !.fragment_total_zmax = FRAGMENT_TOTAL_ZMAX + 1]),
   MetaRows([OwnMetadata EXCEPT !.length = hours_in_month(february)]),
   {kv \in MetaRows(OwnMetadata) : kv[1] # "fragment_total_zmax"},
   {kv \in MetaRows([OwnMetadata EXCEPT !.hashmod = DatasetHashmod + 1]) :
      kv[1] # "length"},
   MetaRows(OwnMetadata) \cup {<<"compression", "zlib">>}}

\* the number of shard tables a stored metadata table goes with
StoredHashmod(meta) ==
  IF <<"hashmod", ToString(DatasetHashmod)>> \in meta
  THEN DatasetHashmod ELSE DatasetHashmod + 1

\* a row as save() writes it for a fragment of the doctest
StoredRow ==
  Row(total_update([create(1, NewGroup(DatasetHashmod, JanuaryTag,
                                        hours_in_month(january)),
                           "aboth", "abov11", TYPE_DEFAULT)
                    EXCEPT !.data.at[0] = 11]))

StoredBuckets ==
  {[file |-> TRUE, hasMeta |-> TRUE, meta |-> m,
    tables |-> [EmptyTables(StoredHashmod(m)) EXCEPT ![1] = rows]] :
     m \in StoredMetas, rows \in {<<>>, <<StoredRow>>}}

InitMeta ==
  /\ \E b \in StoredBuckets \cup {NoFile} :
       disk = [t \in Tags |-> IF t = JanuaryTag THEN b ELSE NoFile]
  /\ groups = [h \in Handles |-> NoGroup]
  /\ frags = [f \in Slots |-> NoFrag]
  /\ last = Call("init", 0, NoId, 0, 0, "ok")
  /\ routed = {}

NextMeta == Lifecycle(Handles, DatasetHashmod, ValidMonths \cup BogusMonths, BOOLEAN)

SpecMeta == InitMeta /\ [][NextMeta]_vars

----------------------------------------------------------------------------
(* Shard routing under datasets of every hashmod *)

\* every group the caller holds belongs to the dataset of this hashmod
SameDataset(hashmod) ==
  \A h \in Handles : groups[h] # NoGroup => groups[h].hashmod = hashmod

NextShard ==
  \/ \E h \in Handles, n \in 1..MaxHashmod, m \in ValidMonths :
       SameDataset(n) /\ Construct(h, n, m)
  \/ \E h \in Handles, id \in Idents : ShardCall(h, id)

SpecShard == Init /\ [][NextShard]_vars

----------------------------------------------------------------------------
(* Two months of one dataset *)

\* a group on the bucket of January and one on that of February, one fragment
\* variable, and the calls of the claim: open, create, save, commit, close, fetch
NextMonths ==
  \/ OpenMonth(1, DatasetHashmod, january, TRUE)
  \/ OpenMonth(2, DatasetHashmod, february, TRUE)
  \/ \E h \in Handles : Close(h)
  \/ \E h \in Handles : Begin(h)
  \/ \E h \in Handles : Commit(h)
  \/ \E h \in Handles : Create(h, <<"aboth", "abov11">>, TYPE_DEFAULT, 1)
  \/ \E h \in Handles : Fetch(h, <<"aboth", "abov11">>, 1)
  \/ Save(1)

SpecMonths == Init /\ [][NextMonths]_vars

----------------------------------------------------------------------------
(* Both element types *)

\* one group, one fragment variable, one identity, float32 and float64 data
NextDtype ==
  \/ Lifecycle({1}, DatasetHashmod, {january}, {TRUE})
  \/ DataCalls({1}, {1}, {<<"aboth", "abov11">>}, DTypes, {<<0, 11>>})

SpecDtype == Init /\ [][NextDtype]_vars

----------------------------------------------------------------------------
(* A writer and a reader of one bucket *)

\* group 1 writes the January bucket through fragment variable 1, group 2 reads
\* it through fragment variable 2
NextReaders ==
  \/ OpenMonth(1, DatasetHashmod, january, TRUE)
  \/ OpenMonth(2, DatasetHashmod, january, FALSE)
  \/ \E h \in {1, 2} : Close(h)
  \/ \E h \in {1, 2} : Begin(h)
  \/ \E h \in {1, 2} : Commit(h)
  \/ \E id \in SameShardIdents : Create(1, id, TYPE_DEFAULT, 1)
  \/ \E id \in SameShardIdents : Fetch(2, id, 2)
  \/ Save(1)

SpecReaders == Init /\ [][NextReaders]_vars

----------------------------------------------------------------------------
(* Identities of several shards *)

\* one group, one fragment variable, identities of two shard tables
NextTables ==
  \/ Lifecycle({1}, DatasetHashmod, {january}, {TRUE})
  \/ DataCalls({1}, {1}, Idents, {TYPE_DEFAULT}, {<<0, 11>>})

SpecTables == Init /\ [][NextTables]_vars

----------------------------------------------------------------------------
(* Properties of Spec *)

\* the group's connection is open and no row of its shard table has the identity
Absent(g, id) ==
  /\ g.db = "open"
  /\ GroupShard(g, id[1], id[2]) + 1 \in DOMAIN View(g)
  /\ Matches(View(g)[GroupShard(g, id[1], id[2]) + 1], id[1], id[2]) = {}

\* the tables of every file, committed or pending in a transaction
AllTables ==
  {disk[t].tables : t \in Tags}
  \cup {groups[h].txn.tables : h \in {k \in Handles : groups[k] # NoGroup}}

\* C1 (as claimed): a fragment made by create, assigned to, saved once and
\* committed is what a later fetch of its identity on its group returns: the
\* total is the exact sum of the elements and the data is element-wise equal
C1_RoundTrip ==
  \A f \in Slots :
    (/\ frags[f] # NoFrag
     /\ frags[f].source = "NEW"
     /\ frags[f].saved = "committed"
     /\ groups[frags[f].group].db = "open")
    => \A o \in FetchAny(frags[f].group, groups[frags[f].group],
                         frags[f].namespace, frags[f].name) :
         /\ o.res = "ok"
         /\ o.frag.total = ExactSum(frags[f].data)
         /\ o.frag.data = frags[f].data

\* C2 (as claimed): every shard table holds at most one row for an identity
C2_UniqueRows ==
  \A tb \in AllTables : \A i \in DOMAIN tb : \A id \in Namespaces \X Names :
    Cardinality(Matches(tb[i], id[1], id[2])) <= 1

\* C5: on an open group, fetch of an identity without a row raises
\* Not_Enough_Rows_Error and returns nothing, and fetch_or_create returns what
\* create returns: source NEW, every element zero, length group.length
C5_AbsentFetch ==
  [][(/\ last'.op \in {"fetch", "fetch_or_create"}
      /\ Absent(groups[last'.h], last'.id))
     => IF last'.op = "fetch"
        THEN last'.res = "Not_Enough_Rows_Error" /\ frags' = frags
        ELSE /\ last'.res = "ok"
             /\ frags'[last'.f].source = "NEW"
             /\ frags'[last'.f].data.len = groups[last'.h].length
             /\ \A i \in Idx : frags'[last'.f].data.at[i] = 0
             /\ frags'[last'.f] = create(last'.h, groups[last'.h], last'.id[1],
                                         last'.id[2], last'.arg)]_vars

\* fetch_or_create has returned a new fragment for an identity that has no row,
\* in a shard table that holds a row of another identity
C5_Witness ==
  /\ last.op = "fetch_or_create"
  /\ last.res = "ok"
  /\ frags[last.f].source = "NEW"
  /\ Absent(groups[last.h], last.id)
  /\ View(groups[last.h])[GroupShard(groups[last.h], last.id[1], last.id[2]) + 1] # <<>>

Accepted(op, state) == last'.op = op /\ last'.res = "ok" => groups[last'.h].db = state

\* C8 (as claimed): open is accepted only on a group never opened; begin,
\* commit, create, fetch and save only on an open one; close only on an open one
C8_Lifecycle ==
  [][/\ Accepted("open", "unset")
     /\ Accepted("begin", "open")
     /\ Accepted("commit", "open")
     /\ Accepted("create", "open")
     /\ Accepted("fetch", "open")
     /\ Accepted("save", "open")
     /\ Accepted("close", "open")]_vars

\* the file of the group is absent or holds the group's own metadata
OwnBucket(g) == disk[g.tag].hasMeta => disk[g.tag].meta = MetadataRows(g)

\* C8 (amended): begin, commit, fetch and save are accepted only on an open
\* group and close is refused on a group never opened; create is accepted in
\* every state, and a writeable open is accepted in every state, also after close
C8_LifecycleAsCoded ==
  [][/\ Accepted("begin", "open")
     /\ Accepted("commit", "open")
     /\ Accepted("fetch", "open")
     /\ Accepted("fetch_or_create", "open")
     /\ Accepted("save", "open")
     /\ (last'.op = "close" /\ groups[last'.h].db = "unset" => last'.res # "ok")
     /\ (last'.op = "create" => last'.res = "ok")
     /\ (last'.op = "open" /\ last'.arg = TRUE /\ OwnBucket(groups[last'.h])
         => last'.res = "ok" /\ groups'[last'.h].db = "open")]_vars

\* create has returned a fragment on a closed group
C8_Witness ==
  /\ last.op = "create"
  /\ last.res = "ok"
  /\ groups[last.h].db = "closed"
  /\ frags[last.f].group = last.h

\* C10: a save that raises leaves every table, committed or pending, as it was,
\* and the fragment as unpersisted as before
C10_FailedSave ==
  [][last'.op = "save" /\ last'.res # "ok"
     => /\ disk' = disk
        /\ groups' = groups
        /\ frags'[last'.f].source = frags[last'.f].source
        /\ frags'[last'.f].saved = frags[last'.f].saved]_vars

\* a save was refused while a row of the identity is stored
C10_Witness ==
  /\ last.op = "save"
  /\ last.res = "StoreError"
  /\ \E i \in DOMAIN disk[groups[last.h].tag].tables :
       Matches(disk[groups[last.h].tag].tables[i], last.id[1], last.id[2]) # {}

\* the rows of an identity in the shard table the group reads for it
RowsOf(g, tables, id) ==
  IF GroupShard(g, id[1], id[2]) + 1 \in DOMAIN tables
  THEN SelectSeq(tables[GroupShard(g, id[1], id[2]) + 1],
                 LAMBDA r : r.namespace = id[1] /\ r.name = id[2])
  ELSE <<>>

\* the identities other than id that the group routes to the shard of id
ShardMates(g, id) ==
  {o \in (Namespaces \X Names) \ {id} :
     GroupShard(g, o[1], o[2]) = GroupShard(g, id[1], id[2])}

\* C12: a save (insert or update), fetch or fetch_or_create of one identity on
\* an open group leaves the rows of every other identity of the same shard as
\* they were, stored and pending, and what fetch returns for it
C12_ShardMates ==
  [][\A h \in Handles :
       (/\ last'.op \in {"save", "fetch", "fetch_or_create"}
        /\ last'.h = h
        /\ groups[h].db = "open")
       => \A o \in ShardMates(groups[h], last'.id) :
            /\ RowsOf(groups[h], disk'[groups[h].tag].tables, o)
                 = RowsOf(groups[h], disk[groups[h].tag].tables, o)
            /\ RowsOf(groups[h], View(groups[h])', o)
                 = RowsOf(groups[h], View(groups[h]), o)
            /\ FetchFrom(h, groups[h], View(groups[h])', o[1], o[2])
                 = FetchFrom(h, groups[h], View(groups[h]), o[1], o[2])]_vars

\* a fetched fragment was saved (an update) into a shard table that holds a row
\* of another identity, with other data
C12_Witness ==
  /\ last.op = "save"
  /\ last.res = "ok"
  /\ frags[last.f].source = "UNCOMPRESSED"
  /\ \E o \in ShardMates(groups[last.h], last.id) :
       /\ RowsOf(groups[last.h], View(groups[last.h]), o) # <<>>
       /\ RowsOf(groups[last.h], View(groups[last.h]), o)[1].data
            # RowsOf(groups[last.h], View(groups[last.h]), last.id)[1].data

\* C16 (as claimed): a second successful save of a fragment made by create,
\* whose first save stored the one row of its identity, adds no row: the
\* identity still has one row
C16_SecondSave ==
  [][\A h \in Handles :
       (/\ last'.op = "save"
        /\ last'.res = "ok"
        /\ last'.h = h
        /\ frags[last'.f].source = "NEW"
        /\ frags[last'.f].saved # "no"
        /\ Len(RowsOf(groups[h], View(groups[h]), last'.id)) = 1)
       => Len(RowsOf(groups[h], View(groups[h])', last'.id)) = 1]_vars

\* C20: create and fetch_or_create change no file and no connection, and an
\* identity without a row has none after them: fetch still ends not-found
C20_CreateNoWrite ==
  [][\A h \in Handles :
       (last'.op \in {"create", "fetch_or_create"} /\ last'.h = h)
       => /\ disk' = disk
          /\ groups' = groups
          /\ Absent(groups[h], last'.id)
             => FetchFrom(h, groups[h], View(groups[h])', last'.id[1], last'.id[2])
                  = {[res |-> "Not_Enough_Rows_Error", frag |-> NoFrag]}]_vars

\* fetch ended not-found for the identity of a created fragment not yet saved
C20_Witness ==
  /\ last.op = "fetch"
  /\ last.res = "Not_Enough_Rows_Error"
  /\ frags[last.f] # NoFrag
  /\ frags[last.f].source = "NEW"
  /\ frags[last.f].saved = "no"
  /\ <<frags[last.f].namespace, frags[last.f].name>> = last.id

----------------------------------------------------------------------------
(* Properties of SpecMeta *)

\* this step is open() or open_month() with a well-formed month
IsOpen ==
  \/ last'.op = "open"
  \/ last'.op = "open_month" /\ last'.arg.month \in ValidMonths

\* the group the step opens
Opened ==
  IF last'.op = "open" THEN groups[last'.h]
  ELSE NewGroup(DatasetHashmod, iso8601_date(last'.arg.month),
                hours_in_month(last'.arg.month))

\* the file holds every expected key, one of them with another value
ValueDiffers(g, bucket) ==
  /\ bucket.hasMeta
  /\ MetaKeys \subseteq StoredKeys(bucket)
  /\ \E k \in MetaKeys : StoredValue(bucket, k) # PyStr(k, g.metadata[k])

\* C3: opening a bucket whose metadata differs in the value of a key raises
\* the metadata mismatch and leaves every file as it was, writeable or not
C3_ValueMismatch ==
  [][IsOpen /\ ValueDiffers(Opened, disk[Opened.tag])
     => last'.res = "ValueError: Metadata mismatch" /\ disk' = disk]_vars

\* a writeable open was refused for a differing value on a file that holds a row
C3_Witness ==
  /\ last.op = "open_month"
  /\ last.arg.month = january
  /\ last.arg.writeable
  /\ last.res = "ValueError: Metadata mismatch"
  /\ MetaKeys \subseteq StoredKeys(disk[JanuaryTag])
  /\ disk[JanuaryTag].tables[1] # <<>>

\* C4 (as claimed): opening a bucket whose key set differs from the expected
\* one raises the metadata mismatch and no other error
C4_KeySetMismatch ==
  [][(/\ IsOpen
      /\ disk[Opened.tag].hasMeta
      /\ StoredKeys(disk[Opened.tag]) # MetaKeys)
     => last'.res = "ValueError: Metadata mismatch"]_vars

\* C6: open_month with a day other than 1, a non-zero sub-day field or a time
\* zone other than UTC raises ValueError, and no file and no group changes
C6_BogusMonth ==
  [][(/\ last'.op = "open_month"
      /\ \/ last'.arg.month.day # 1
         \/ last'.arg.month.hour # 0
         \/ last'.arg.month.minute # 0
         \/ last'.arg.month.second # 0
         \/ last'.arg.month.microsecond # 0
         \/ last'.arg.month.tz # "UTC")
     => /\ last'.res \in {"ValueError: month must have day=1, not "
                            \o ToString(last'.arg.month.day),
                          "ValueError: month must have all sub-day attributes equal to zero",
                          "ValueError: time zone must be UTC"}
        /\ disk' = disk
        /\ groups' = groups]_vars

\* a writeable open_month of the second of January was refused beside an existing bucket
C6_Witness ==
  /\ last.op = "open_month"
  /\ last.arg.month = mid_january2
  /\ last.arg.writeable
  /\ last.res = "ValueError: month must have day=1, not 2"
  /\ disk[JanuaryTag].hasMeta

\* C9: opening a bucket that holds the expected metadata succeeds, read-only or
\* writeable, and metadata once written is never changed by any call
C9_IdempotentOpen ==
  [][/\ (/\ IsOpen
         /\ disk[Opened.tag].hasMeta
         /\ disk[Opened.tag].meta = MetadataRows(Opened))
        => last'.res = "ok" /\ disk' = disk
     /\ \A t \in Tags :
          disk[t].hasMeta => disk'[t].hasMeta /\ disk'[t].meta = disk[t].meta]_vars

\* the bucket is open twice, read-only and writeable, after a re-open
C9_Witness ==
  /\ last.op = "open"
  /\ last.res = "ok"
  /\ \A h \in {1, 2} : groups[h] # NoGroup /\ groups[h].db = "open"
  /\ groups[1].tag = groups[2].tag
  /\ groups[1].writeable # groups[2].writeable

\* the writeable argument of the open of this step
OpenedWriteable == IF last'.op = "open" THEN last'.arg ELSE last'.arg.writeable

\* the metadata table of a group of the dataset with the given length
ExpectedMeta(length) ==
  {<<"fragment_total_zmax", "2">>, <<"hash", "fnv1a_32">>,
   <<"hashmod", ToString(DatasetHashmod)>>, <<"length", ToString(length)>>,
   <<"schema_version", "1">>}

\* C17: a successful writeable open of a bucket without structure leaves it
\* with the expected metadata and hashmod empty shard tables, never one
\* without the other; a read-only open changes no file, and fails on an absent
\* bucket, which stays without metadata and tables
C17_OpenStructure ==
  [][IsOpen =>
       /\ (OpenedWriteable /\ ~disk[Opened.tag].hasMeta /\ last'.res = "ok")
          => /\ disk'[Opened.tag].hasMeta
             /\ disk'[Opened.tag].meta = ExpectedMeta(Opened.length)
             /\ disk'[Opened.tag].tables = [i \in 1..DatasetHashmod |-> <<>>]
       /\ ~OpenedWriteable
          => /\ disk' = disk
             /\ ~disk[Opened.tag].file
                => /\ last'.res # "ok"
                   /\ ~disk'[Opened.tag].hasMeta
                   /\ disk'[Opened.tag].tables = <<>>
       /\ \A t \in Tags : disk'[t].hasMeta <=> disk'[t].tables # <<>>]_vars

\* a writeable open_month has set up the absent February bucket
C17_Witness ==
  /\ last.op = "open_month"
  /\ last.arg.month = february
  /\ last.arg.writeable
  /\ last.res = "ok"
  /\ disk[iso8601_date(february)].meta = ExpectedMeta(672)
  /\ Len(disk[iso8601_date(february)].tables) = DatasetHashmod

----------------------------------------------------------------------------
(* Properties of SpecShard *)

\* C7: every shard index computed lies in 0..hashmod-1, and an identity gets
\* the same index in every group of the dataset, whatever the month
C7_ShardRange ==
  \A r \in routed :
    /\ r.shard \in 0..(r.hashmod - 1)
    /\ \A q \in routed : q.id = r.id /\ q.hashmod = r.hashmod => q.shard = r.shard

\* one identity was routed in the groups of two months to a shard other than 0
C7_Witness ==
  \E r, q \in routed : r.id = q.id /\ r.tag # q.tag /\ r.shard = q.shard /\ r.shard > 0

----------------------------------------------------------------------------
(* Properties of SpecMonths *)

\* the group the step's call is made on (that of the fragment, for a.data[i] = v)
Actor == IF last'.op = "setitem" THEN frags[last'.f].group ELSE last'.h

\* the bucket the step's call is made for
StepTag ==
  IF last'.op = "open_month" THEN iso8601_date(last'.arg.month) ELSE groups'[Actor].tag

\* C11: a call on the group of one month changes neither the file of another
\* month (metadata, shard tables, rows) nor a group of another month nor what
\* fetch returns on it; and groups of two months are open at the same time
C11_MonthsIndependent ==
  [][/\ \A t \in Tags \ {StepTag} : disk'[t] = disk[t]
     /\ \A k \in Handles \ {Actor} :
          (groups[k] # NoGroup /\ groups[k].tag # StepTag)
          => /\ groups'[k] = groups[k]
             /\ groups[k].db = "open"
                => \A id \in Idents :
                     FetchFrom(k, groups[k], View(groups[k])', id[1], id[2])
                       = FetchFrom(k, groups[k], View(groups[k]), id[1], id[2])]_vars

\* both months are open, each file holds a row, and the last call saved into one
C11_Witness ==
  /\ last.op = "save"
  /\ last.res = "ok"
  /\ \A h \in {1, 2} : groups[h] # NoGroup /\ groups[h].db = "open"
  /\ groups[1].tag # groups[2].tag
  /\ \A h \in {1, 2} : disk[groups[h].tag].tables[1] # <<>>

----------------------------------------------------------------------------
(* Properties of SpecDtype *)

\* C13: fetch_or_create of an identity that has a row ends as fetch of it ends
\* and returns what fetch returns, whatever dtype is passed: source
\* UNCOMPRESSED and the dtype, total and data of the stored row
C13_FetchOrCreateStored ==
  [][\A h \in Handles :
       (/\ last'.op = "fetch_or_create"
        /\ last'.h = h
        /\ groups[h].db = "open"
        /\ RowsOf(groups[h], View(groups[h]), last'.id) # <<>>)
       => /\ \E o \in FetchAny(h, groups[h], last'.id[1], last'.id[2]) :
               /\ o.res = last'.res
               /\ o.res = "ok" => frags'[last'.f] = o.frag
          /\ last'.res = "ok"
             => LET row == RowsOf(groups[h], View(groups[h]), last'.id)[1]
                IN  /\ frags'[last'.f].source = "UNCOMPRESSED"
                    /\ frags'[last'.f].dtype = row.dtype
                    /\ frags'[last'.f].total = row.total
                    /\ frags'[last'.f].data = FromBuffer(row.data, row.dtype)]_vars

\* fetch_or_create was passed a dtype other than that of the row it returned
C13_Witness ==
  /\ last.op = "fetch_or_create"
  /\ last.res = "ok"
  /\ frags[last.f].source = "UNCOMPRESSED"
  /\ frags[last.f].dtype # last.arg
  /\ frags[last.f].data.at[0] = 11

----------------------------------------------------------------------------
(* Properties of SpecReaders *)

\* group k holds another open connection to the file of group h
ReaderOf(k, h) ==
  /\ k # h
  /\ groups[k] # NoGroup
  /\ groups[k].db = "open"
  /\ groups[k].tag = groups[h].tag

\* C14: while a transaction is open on a group, no call on that group or on
\* its fragments changes the file or what another connection to it reads; the
\* commit makes every row of the batch readable by the others in one step
C14_BatchVisibility ==
  [][\A h \in Handles :
       (/\ groups[h] # NoGroup
        /\ groups[h].db = "open"
        /\ groups[h].txn.active
        /\ Actor = h)
       => IF last'.op = "commit" /\ last'.res = "ok"
          THEN \A k \in Handles :
                 ReaderOf(k, h) /\ groups[h].txn.dirty
                 => View(groups[k])' = groups[h].txn.tables
          ELSE /\ disk' = disk
               /\ \A k \in Handles :
                    ReaderOf(k, h) => View(groups[k])' = View(groups[k])]_vars

\* the reader's fetch found no row while two saved rows of the writer's batch wait
\* for the commit
C14_Witness ==
  /\ last.op = "fetch"
  /\ last.h = 2
  /\ last.res = "Not_Enough_Rows_Error"
  /\ groups[1] # NoGroup
  /\ groups[1].txn.dirty
  /\ RowCount(groups[1].txn.tables) = 2
  /\ RowCount(disk[groups[1].tag].tables) = 0

----------------------------------------------------------------------------
(* Properties of SpecTables *)

\* every row of every table, stored or pending, lies in the table of its shard
RowsRouted ==
  \A tb \in AllTables : \A i \in DOMAIN tb : \A j \in DOMAIN tb[i] :
    Route(Len(tb), tb[i][j].namespace, tb[i][j].name) = i - 1

\* C15: a successful save changes only the shard table of the fragment's
\* identity; it appends one row when the source is NEW and otherwise rewrites
\* the rows of the identity in place, the number of rows unchanged; and every
\* row lies in the table of index shard(namespace, name)
C15_SaveShardTable ==
  [][/\ \A h \in Handles :
          (last'.op = "save" /\ last'.res = "ok" /\ last'.h = h)
          => LET sh     == Route(groups[h].hashmod, last'.id[1], last'.id[2]) + 1
                 before == View(groups[h])
                 after  == View(groups[h])'
                 IsId(r) == r.namespace = last'.id[1] /\ r.name = last'.id[2]
             IN  /\ DOMAIN after = DOMAIN before
                 /\ \A i \in DOMAIN before \ {sh} : after[i] = before[i]
                 /\ IF frags[last'.f].source = "NEW"
                    THEN /\ Len(after[sh]) = Len(before[sh]) + 1
                         /\ SubSeq(after[sh], 1, Len(before[sh])) = before[sh]
                         /\ IsId(after[sh][Len(after[sh])])
                    ELSE /\ Len(after[sh]) = Len(before[sh])
                         /\ \A j \in DOMAIN before[sh] :
                              IF IsId(before[sh][j])
                              THEN after[sh][j] = Row(frags'[last'.f])
                              ELSE after[sh][j] = before[sh][j]
     /\ RowsRouted']_vars

\* a fetched fragment was saved into the second shard table while the first
\* holds a row too
C15_Witness ==
  /\ last.op = "save"
  /\ last.res = "ok"
  /\ frags[last.f].source = "UNCOMPRESSED"
  /\ Route(groups[last.h].hashmod, last.id[1], last.id[2]) = 1
  /\ View(groups[last.h])[1] # <<>>
  /\ View(groups[last.h])[2] # <<>>

\* the fragment variable a step assigns or acts on, 0 if none
Touched ==
  IF last'.op \in {"create", "fetch", "fetch_or_create", "setitem", "save"}
  THEN last'.f ELSE 0

\* C18: an assignment to data changes neither the total of the fragment nor
\* any stored or pending row; create gives total 0, fetch the total of the
\* stored row, save (raising or not) the sum of the data as it is then; the
\* total of no other fragment and in no other step changes
C18_TotalOnSave ==
  [][/\ \A f \in Slots \ {Touched} :
          frags[f] # NoFrag => frags'[f] # NoFrag /\ frags'[f].total = frags[f].total
     /\ last'.op = "setitem"
        => /\ frags'[last'.f].total = frags[last'.f].total
           /\ disk' = disk
           /\ groups' = groups
     /\ (last'.res = "ok" /\ last'.op \in {"create", "fetch", "fetch_or_create"})
        => IF frags'[last'.f].source = "NEW"
           THEN frags'[last'.f].total = 0
           ELSE frags'[last'.f].total
                  = RowsOf(groups[last'.h], View(groups[last'.h]), last'.id)[1].total
     /\ last'.op = "save"
        => frags'[last'.f].total = NpSum(frags[last'.f].dtype, frags[last'.f].data)]_vars

\* a fetched fragment was assigned to: its total is still that of the stored
\* row, which is unchanged, and no longer the sum of its data
C18_Witness ==
  /\ last.op = "setitem"
  /\ frags[last.f].source = "UNCOMPRESSED"
  /\ frags[last.f].data.at[0] = 11
  /\ frags[last.f].total = 0
  /\ LET g == groups[frags[last.f].group]
     IN  /\ g.db = "open"
         /\ RowsOf(g, View(g), <<frags[last.f].namespace, frags[last.f].name>>)[1].total = 0

\* C19: every fragment the caller got from create, fetch or fetch_or_create has
\* len(data) = group.length, and every row holds length elements of its dtype
C19_DataLength ==
  /\ \A f \in Slots :
       frags[f] # NoFrag => frags[f].data.len = groups[frags[f].group].length
  /\ \A h \in Handles :
       (groups[h] # NoGroup /\ groups[h].db = "open")
       => \A i \in DOMAIN View(groups[h]) : \A j \in DOMAIN View(groups[h])[i] :
            View(groups[h])[i][j].data.nbytes
              = groups[h].length * (IF View(groups[h])[i][j].dtype = "d" THEN 8 ELSE 4)

\* fetch has returned a float64 fragment of the length of the group
C19_Witness ==
  /\ last.op = "fetch"
  /\ last.res = "ok"
  /\ frags[last.f].source = "UNCOMPRESSED"
  /\ frags[last.f].dtype = "d"
  /\ frags[last.f].data.len = 744
  /\ groups[last.h].length = 744

====
